---------------------------- MODULE Spec2Model ----------------------------
(***************************************************************************)
(* A model of AiOS (JumpinBeans/Kairo, ai_os crate):                       *)
(*   - hal/memory.rs     SimulatedCelestialMemory, two HashMap CRUD stores *)
(*   - hal/tensor.rs     CpuTensorOperations::add over raw byte buffers    *)
(*   - hal/ai.rs         the keyword-based emotional reasoning engine      *)
(*   - hal/compute.rs    BasicComputeService and its device list           *)
(*   - module_system.rs  the JSON-backed module registry ("blockchain")    *)
(*   - os_services.rs    the file system behind FileSystemService          *)
(*   - main.rs           the command loop and its command handlers         *)
(* The specifications share the variables:                                 *)
(*   SpecMemory         the calls of the celestial memory                   *)
(*   SpecRegistry       the commands that use the registry and the files    *)
(*   SpecRegistryCalls  the registry's read and write functions on their own*)
(*   SpecTensor         the tensor operations                               *)
(*   SpecEmotion        the emotional reasoning engine                      *)
(*   SpecCompute        the compute service beside the celestial memory     *)
(*   SpecShell          the command loop, line by line                      *)
(***************************************************************************)
EXTENDS Integers, Sequences, FiniteSets, TLC

VARIABLES
    emotion_clouds,   \* SimulatedCelestialMemory.emotion_clouds : id -> EmotionCloud
    resonant_nodes,   \* SimulatedCelestialMemory.resonant_nodes : id -> ResonantNode
    n_store_ok,       \* history: number of store_emotion_cloud calls that returned Ok
    n_remove_ok,      \* history: number of remove_emotion_cloud calls that returned Ok
    cwd,              \* the process's current working directory
    registry,         \* the file-system node at <root>/ai_os/blockchain.json
    modules,          \* the file-system nodes at <root>/ai_os/modules/<name>
    call,             \* the last call or command: what was called, with what, and what came back
    input             \* main: what the last read_line at the prompt gave (a line, or an error)

vars == <<emotion_clouds, resonant_nodes, n_store_ok, n_remove_ok,
          cwd, registry, modules, call, input>>

memVars == <<emotion_clouds, resonant_nodes, n_store_ok, n_remove_ok>>
fsVars == <<cwd, registry, modules>>

-----------------------------------------------------------------------------
(* Bounds of the model *)

\* successful store_emotion_cloud calls counted by the history counters
MaxStores == 3

\* entries the registry file holds, and the length of a list handed to
\* write_blockchain_entries
MaxEntries == 2

\* the largest value of an f32 element of a tensor handed to add
MaxElem == 1

\* the pieces a text handed to analyze_emotional_context is made of
MaxFragments == 2

-----------------------------------------------------------------------------
(* Option<T>: None is the empty sequence, Some(x) the one-element sequence *)

None == <<>>
Some(x) == <<x>>

(* std::collections::HashMap as a function whose DOMAIN is the key set *)

EmptyMap == <<>>

ContainsKey(map, k) == k \in DOMAIN map

MapGet(map, k) == IF k \in DOMAIN map THEN Some(map[k]) ELSE None

MapInsert(map, k, v) == [x \in (DOMAIN map) \cup {k} |-> IF x = k THEN v ELSE map[x]]

MapRemove(map, k) == [x \in (DOMAIN map) \ {k} |-> map[x]]

\* HashMap::values() iterates in an unspecified order: every ordering of the keys
Orderings(S) == {s \in [1..Cardinality(S) -> S] : \A i, j \in DOMAIN s : i # j => s[i] # s[j]}

MapValuesIn(map, order) == [i \in DOMAIN order |-> map[order[i]]]

-----------------------------------------------------------------------------
(* The values stored.  f32 values are stood in for by small integers.      *)

CloudIds == {"c1", "c2"}
NodeIds == {"n1", "n2"}

EmotionCloud(id, v) ==
    IF v = 1
    THEN [id |-> id, position |-> <<1, 2, 3>>, color |-> <<255, 0, 0, 255>>,
          intensity |-> 75, shape_description |-> "sphere"]
    ELSE [id |-> id, position |-> <<0, 0, 0>>, color |-> <<0, 0, 0, 0>>,
          intensity |-> 10, shape_description |-> "s1"]

EmotionClouds == {EmotionCloud(id, v) : id \in CloudIds, v \in {1, 2}}

ResonantNode(id, v) ==
    IF v = 1
    THEN [id |-> id, position |-> <<4, 5, 6>>, related_emotion_cloud_ids |-> <<"c1">>,
          memory_data_pointer |-> "ptr_to_data_123"]
    ELSE [id |-> id, position |-> <<0, 0, 0>>, related_emotion_cloud_ids |-> <<>>,
          memory_data_pointer |-> "p1"]

ResonantNodes == {ResonantNode(id, v) : id \in NodeIds, v \in {1, 2}}

Called(op, arg, res, val) == [op |-> op, arg |-> arg, res |-> res, val |-> val]

-----------------------------------------------------------------------------
(* impl CelestialModelMemory for SimulatedCelestialMemory: emotion clouds *)

\* a store that overwrites instead of refusing a duplicate id
store_emotion_cloud_overwrite(cloud) ==
    /\ n_store_ok < MaxStores
    /\ emotion_clouds' = MapInsert(emotion_clouds, cloud.id, cloud)
    /\ n_store_ok' = n_store_ok + 1
    /\ call' = Called("store_emotion_cloud", cloud, "Ok", None)
    /\ UNCHANGED <<resonant_nodes, n_remove_ok, fsVars>>

store_emotion_cloud(cloud) ==
    IF ContainsKey(emotion_clouds, cloud.id)
    THEN /\ call' = Called("store_emotion_cloud", cloud, "Err", None)
         /\ UNCHANGED <<memVars, fsVars>>
    ELSE /\ n_store_ok < MaxStores
         /\ emotion_clouds' = MapInsert(emotion_clouds, cloud.id, cloud)
         /\ n_store_ok' = n_store_ok + 1
         /\ call' = Called("store_emotion_cloud", cloud, "Ok", None)
         /\ UNCHANGED <<resonant_nodes, n_remove_ok, fsVars>>

\* a retrieve that takes the cloud out of the map (HashMap::remove for HashMap::get)
retrieve_emotion_cloud_take(id) ==
    /\ call' = Called("retrieve_emotion_cloud", id, "Ok", MapGet(emotion_clouds, id))
    /\ emotion_clouds' = MapRemove(emotion_clouds, id)
    /\ UNCHANGED <<resonant_nodes, n_store_ok, n_remove_ok, fsVars>>

retrieve_emotion_cloud(id) ==
    /\ call' = Called("retrieve_emotion_cloud", id, "Ok", MapGet(emotion_clouds, id))
    /\ UNCHANGED <<memVars, fsVars>>

\* a listing that drops the last value of the iteration
list_emotion_clouds_short ==
    \E order \in Orderings(DOMAIN emotion_clouds) :
        /\ call' = Called("list_emotion_clouds", None, "Ok",
                          SubSeq(MapValuesIn(emotion_clouds, order), 1, Len(order) - 1))
        /\ UNCHANGED <<memVars, fsVars>>

list_emotion_clouds ==
    \E order \in Orderings(DOMAIN emotion_clouds) :
        /\ call' = Called("list_emotion_clouds", None, "Ok", MapValuesIn(emotion_clouds, order))
        /\ UNCHANGED <<memVars, fsVars>>

\* an update that inserts without the presence check (an upsert)
update_emotion_cloud_upsert(cloud_update) ==
    /\ emotion_clouds' = MapInsert(emotion_clouds, cloud_update.id, cloud_update)
    /\ call' = Called("update_emotion_cloud", cloud_update, "Ok", None)
    /\ UNCHANGED <<resonant_nodes, n_store_ok, n_remove_ok, fsVars>>

update_emotion_cloud(cloud_update) ==
    IF ~ContainsKey(emotion_clouds, cloud_update.id)
    THEN /\ call' = Called("update_emotion_cloud", cloud_update, "Err", None)
         /\ UNCHANGED <<memVars, fsVars>>
    ELSE /\ emotion_clouds' = MapInsert(emotion_clouds, cloud_update.id, cloud_update)
         /\ call' = Called("update_emotion_cloud", cloud_update, "Ok", None)
         /\ UNCHANGED <<resonant_nodes, n_store_ok, n_remove_ok, fsVars>>

\* a remove that reports Ok whether or not the id was present
remove_emotion_cloud_always_ok(id) ==
    /\ emotion_clouds' = MapRemove(emotion_clouds, id)
    /\ n_remove_ok' = n_remove_ok + 1
    /\ call' = Called("remove_emotion_cloud", id, "Ok", None)
    /\ UNCHANGED <<resonant_nodes, n_store_ok, fsVars>>

\* a remove that also drops the nodes that list the removed cloud
remove_emotion_cloud_cascade(id) ==
    IF MapGet(emotion_clouds, id) = None
    THEN /\ call' = Called("remove_emotion_cloud", id, "Err", None)
         /\ UNCHANGED <<memVars, fsVars>>
    ELSE /\ emotion_clouds' = MapRemove(emotion_clouds, id)
         /\ resonant_nodes' =
               [k \in {n \in DOMAIN resonant_nodes :
                          \A i \in DOMAIN resonant_nodes[n].related_emotion_cloud_ids :
                              resonant_nodes[n].related_emotion_cloud_ids[i] # id}
                  |-> resonant_nodes[k]]
         /\ n_remove_ok' = n_remove_ok + 1
         /\ call' = Called("remove_emotion_cloud", id, "Ok", None)
         /\ UNCHANGED <<n_store_ok, fsVars>>

remove_emotion_cloud(id) ==
    IF MapGet(emotion_clouds, id) = None
    THEN /\ call' = Called("remove_emotion_cloud", id, "Err", None)
         /\ UNCHANGED <<memVars, fsVars>>
    ELSE /\ emotion_clouds' = MapRemove(emotion_clouds, id)
         /\ n_remove_ok' = n_remove_ok + 1
         /\ call' = Called("remove_emotion_cloud", id, "Ok", None)
         /\ UNCHANGED <<resonant_nodes, n_store_ok, fsVars>>

-----------------------------------------------------------------------------
(* impl CelestialModelMemory for SimulatedCelestialMemory: resonant nodes *)

\* a node store that overwrites instead of refusing a duplicate id
store_resonant_node_overwrite(node) ==
    /\ resonant_nodes' = MapInsert(resonant_nodes, node.id, node)
    /\ call' = Called("store_resonant_node", node, "Ok", None)
    /\ UNCHANGED <<emotion_clouds, n_store_ok, n_remove_ok, fsVars>>

store_resonant_node(node) ==
    IF ContainsKey(resonant_nodes, node.id)
    THEN /\ call' = Called("store_resonant_node", node, "Err", None)
         /\ UNCHANGED <<memVars, fsVars>>
    ELSE /\ resonant_nodes' = MapInsert(resonant_nodes, node.id, node)
         /\ call' = Called("store_resonant_node", node, "Ok", None)
         /\ UNCHANGED <<emotion_clouds, n_store_ok, n_remove_ok, fsVars>>

retrieve_resonant_node(id) ==
    /\ call' = Called("retrieve_resonant_node", id, "Ok", MapGet(resonant_nodes, id))
    /\ UNCHANGED <<memVars, fsVars>>

list_resonant_nodes ==
    \E order \in Orderings(DOMAIN resonant_nodes) :
        /\ call' = Called("list_resonant_nodes", None, "Ok", MapValuesIn(resonant_nodes, order))
        /\ UNCHANGED <<memVars, fsVars>>

update_resonant_node(node_update) ==
    IF ~ContainsKey(resonant_nodes, node_update.id)
    THEN /\ call' = Called("update_resonant_node", node_update, "Err", None)
         /\ UNCHANGED <<memVars, fsVars>>
    ELSE /\ resonant_nodes' = MapInsert(resonant_nodes, node_update.id, node_update)
         /\ call' = Called("update_resonant_node", node_update, "Ok", None)
         /\ UNCHANGED <<emotion_clouds, n_store_ok, n_remove_ok, fsVars>>

remove_resonant_node(id) ==
    IF MapGet(resonant_nodes, id) = None
    THEN /\ call' = Called("remove_resonant_node", id, "Err", None)
         /\ UNCHANGED <<memVars, fsVars>>
    ELSE /\ resonant_nodes' = MapRemove(resonant_nodes, id)
         /\ call' = Called("remove_resonant_node", id, "Ok", None)
         /\ UNCHANGED <<emotion_clouds, n_store_ok, n_remove_ok, fsVars>>

-----------------------------------------------------------------------------
(* Text.  A text is a sequence of symbols; a symbol is one character, except *)
(* that the keys module_name and hash and the two-space indent are one      *)
(* symbol each.                                                             *)

QUOTE == "\""
BACKSLASH == "\\"
NL == "\n"
INDENT == "  "
Whitespace == {" ", NL, INDENT, "\t"}

\* str::trim().is_empty()
IsBlank(text) == \A i \in DOMAIN text : text[i] \in Whitespace

RECURSIVE Concat(_)
Concat(texts) == IF texts = <<>> THEN <<>> ELSE Head(texts) \o Concat(Tail(texts))

-----------------------------------------------------------------------------
(* module_system.rs: BlockchainEntry and its JSON form (serde_json)         *)

BlockchainEntry(module_name, hash) == [module_name |-> module_name, hash |-> hash]

\* serde_json writes a string between quotes, with " and \ escaped by a backslash
RECURSIVE EscapeStr(_)
\* an escape that leaves the characters as they are
EscapeStr_raw(str) == str

EscapeStr(str) ==
    IF str = <<>> THEN <<>>
    ELSE (IF Head(str) \in {QUOTE, BACKSLASH} THEN <<BACKSLASH, Head(str)>> ELSE <<Head(str)>>)
         \o EscapeStr(Tail(str))

JsonString(str) == <<QUOTE>> \o EscapeStr(str) \o <<QUOTE>>

\* one entry as to_string_pretty writes it, at indent level 1
PrettyEntry(entry) ==
    Concat(<< <<INDENT, "{", NL>>,
              <<INDENT, INDENT>>, JsonString(<<"module_name">>), <<":", " ">>,
                  JsonString(entry.module_name), <<",", NL>>,
              <<INDENT, INDENT>>, JsonString(<<"hash">>), <<":", " ">>,
                  JsonString(entry.hash), <<NL>>,
              <<INDENT, "}">> >>)

RECURSIVE PrettyEntries(_)
PrettyEntries(entries) ==
    IF Len(entries) = 1 THEN PrettyEntry(entries[1])
    ELSE PrettyEntry(Head(entries)) \o <<",", NL>> \o PrettyEntries(Tail(entries))

\* serde_json::to_string_pretty(&Vec<BlockchainEntry>)
to_string_pretty(entries) ==
    IF entries = <<>> THEN <<"[", "]">>
    ELSE <<"[", NL>> \o PrettyEntries(entries) \o <<NL, "]">>

(* serde_json::from_str::<Vec<BlockchainEntry>>: a recursive-descent parse.  *)
(* Each step returns [ok, val, pos]: whether it parsed, what, and the index *)
(* of the first symbol after it.                                            *)

Parsed(val, pos) == [ok |-> TRUE, val |-> val, pos |-> pos]
ParseError == [ok |-> FALSE, val |-> <<>>, pos |-> 0]

At(text, i) == IF i \in DOMAIN text THEN text[i] ELSE "EOF"

RECURSIVE SkipWs(_, _)
SkipWs(text, i) == IF At(text, i) \in Whitespace THEN SkipWs(text, i + 1) ELSE i

\* the characters of a string literal from index i on, up to the closing quote
RECURSIVE ParseStrBody(_, _, _)
ParseStrBody(text, i, acc) ==
    CASE At(text, i) = "EOF" -> ParseError
      [] At(text, i) = QUOTE -> Parsed(acc, i + 1)
      [] At(text, i) = BACKSLASH ->
            IF At(text, i + 1) \in {QUOTE, BACKSLASH, "/"}
            THEN ParseStrBody(text, i + 2, Append(acc, At(text, i + 1)))
            ELSE ParseError
      [] At(text, i) = NL -> ParseError
      [] OTHER -> ParseStrBody(text, i + 1, Append(acc, At(text, i)))

ParseStr(text, i) ==
    IF At(text, i) = QUOTE THEN ParseStrBody(text, i + 1, <<>>) ELSE ParseError

\* The parse is written as a chain of steps, each handing what it parsed to the
\* next: ParseMembers reads a key, AfterKey the colon, AfterColon the value,
\* AfterValue stores the field, MemberEnd reads the , or } that follows.
SetField(fields, key, val) ==
    IF key \in {<<"module_name">>, <<"hash">>} THEN [fields EXCEPT ![key[1]] = Some(val)]
    ELSE fields                                                   \* unknown fields are skipped

IsDuplicate(fields, key) ==
    key \in {<<"module_name">>, <<"hash">>} /\ fields[key[1]] # None

EntryOf(fields, pos) ==
    IF fields.module_name # None /\ fields.hash # None
    THEN Parsed(BlockchainEntry(fields.module_name[1], fields.hash[1]), pos)
    ELSE ParseError                                               \* missing field

RECURSIVE ParseMembers(_, _, _)
MemberEnd(text, after, fields) ==
    CASE At(text, after) = "," -> ParseMembers(text, SkipWs(text, after + 1), fields)
      [] At(text, after) = "}" -> EntryOf(fields, after + 1)
      [] OTHER -> ParseError

AfterValue(text, key, value, fields) ==
    IF ~value.ok \/ IsDuplicate(fields, key) THEN ParseError
    ELSE MemberEnd(text, SkipWs(text, value.pos), SetField(fields, key, value.val))

AfterColon(text, key, colon, fields) ==
    IF At(text, colon) # ":" THEN ParseError
    ELSE AfterValue(text, key, ParseStr(text, SkipWs(text, colon + 1)), fields)

AfterKey(text, key, fields) ==
    IF ~key.ok THEN ParseError
    ELSE AfterColon(text, key.val, SkipWs(text, key.pos), fields)

\* the members of an object from index i on; fields holds the values found so far
ParseMembers(text, i, fields) == AfterKey(text, ParseStr(text, i), fields)

ParseEntry(text, i) ==
    IF At(text, i) # "{" THEN ParseError
    ELSE ParseMembers(text, SkipWs(text, i + 1), [module_name |-> None, hash |-> None])

RECURSIVE ParseElements(_, _, _)
ElementEnd(text, after, acc) ==
    CASE At(text, after) = "," -> ParseElements(text, SkipWs(text, after + 1), acc)
      [] At(text, after) = "]" -> Parsed(acc, after + 1)
      [] OTHER -> ParseError

AfterEntry(text, entry, acc) ==
    IF ~entry.ok THEN ParseError
    ELSE ElementEnd(text, SkipWs(text, entry.pos), Append(acc, entry.val))

\* the elements of the list from index i on; acc holds the entries found so far
ParseElements(text, i, acc) == AfterEntry(text, ParseEntry(text, i), acc)

ParseList(text, start) ==
    IF At(text, start) # "[" THEN ParseError
    ELSE IF At(text, SkipWs(text, start + 1)) = "]" THEN Parsed(<<>>, SkipWs(text, start + 1) + 1)
    ELSE ParseElements(text, SkipWs(text, start + 1), <<>>)

\* after the value only whitespace may follow (serde_json: "trailing characters")
EndOfText(text, list) ==
    IF list.ok /\ SkipWs(text, list.pos) = Len(text) + 1 THEN list ELSE ParseError

from_str(text) == EndOfText(text, ParseList(text, SkipWs(text, 1)))

-----------------------------------------------------------------------------
(* os_services.rs: the host file system behind FileSystemService.            *)
(* The process works in one of two directories: "root", which holds the     *)
(* ai_os directory of the registry and the modules, and "ro", a directory   *)
(* that holds no ai_os directory and in which nothing can be created.       *)
(* Every path the program uses is relative to the working directory.        *)

Dirs == {"root", "ro"}

Absent == [kind |-> "absent"]
Dir == [kind |-> "dir"]
File(content) == [kind |-> "file", content |-> content]

\* "ai_os/blockchain.json" and "ai_os/modules/<name>"
RegistryPath == [at |-> "registry"]
ModulePath(name) == [at |-> "module", name |-> name]

\* module names are words of the command line: a plain one, and one of \ and "
ModNames == {<<"a">>, <<BACKSLASH, QUOTE>>}

\* what a module file can hold
Contents == {"A", "B"}

FS == [cwd |-> cwd, registry |-> registry, modules |-> modules]

NodeAt(fs, path) ==
    IF fs.cwd # "root" THEN Absent
    ELSE IF path.at = "registry" THEN fs.registry
    ELSE fs.modules[path.name]

WithNode(fs, path, node) ==
    IF path.at = "registry" THEN [fs EXCEPT !.registry = node]
    ELSE [fs EXCEPT !.modules[path.name] = node]

Ok(val) == [ok |-> TRUE, val |-> val]
Err(msg) == [ok |-> FALSE, err |-> msg]

\* the result of a call that returns a Result and changes the file system
Done(ok, fs) == [ok |-> ok, fs |-> fs]

path_exists(fs, path) == NodeAt(fs, path).kind # "absent"

read_to_string(fs, path) ==
    CASE NodeAt(fs, path).kind = "file" -> Ok(NodeAt(fs, path).content)
      [] NodeAt(fs, path).kind = "dir" -> Err("Is a directory")
      [] OTHER -> Err("No such file or directory")

\* std::fs::write: creates or truncates the file; fails on a directory and where
\* the parent directory does not exist
write_string(fs, path, content) ==
    IF fs.cwd = "root" /\ NodeAt(fs, path).kind # "dir"
    THEN Done(TRUE, WithNode(fs, path, File(content)))
    ELSE Done(FALSE, fs)

remove_file(fs, path) ==
    IF NodeAt(fs, path).kind = "file"
    THEN Done(TRUE, WithNode(fs, path, Absent))
    ELSE Done(FALSE, fs)

remove_directory_recursive(fs, path) ==
    IF NodeAt(fs, path).kind = "dir"
    THEN Done(TRUE, WithNode(fs, path, Absent))
    ELSE Done(FALSE, fs)

\* std::fs::create_dir_all
create_directory(fs, path) ==
    CASE fs.cwd # "root" -> Done(FALSE, fs)
      [] NodeAt(fs, path).kind = "file" -> Done(FALSE, fs)
      [] OTHER -> Done(TRUE, WithNode(fs, path, Dir))

-----------------------------------------------------------------------------
(* module_system.rs: hashing and the registry file                           *)

\* SHA-256 in lower-case hex, taken as an injective function of the content
Sha256Hex(content) == IF content = "A" THEN <<"1", "f">> ELSE <<"2", "e">>

Hashes == {Sha256Hex(c) : c \in Contents}

HashOf(content_str) ==
    IF content_str.ok THEN Ok(Sha256Hex(content_str.val)) ELSE content_str

calculate_sha256(fs, path) == HashOf(read_to_string(fs, path))

\* the Ok(entries) / Err(e) match on the parse: a text that does not parse is an empty list
EntriesOrEmpty(parsed) == IF parsed.ok THEN parsed.val ELSE <<>>

EntriesOf(data) == IF IsBlank(data) THEN <<>> ELSE EntriesOrEmpty(from_str(data))

\* the line read_blockchain_entries prints for a text it has read
ParseMessage(data) == IF IsBlank(data) \/ from_str(data).ok THEN "" ELSE "parse_warning"

\* the Err(e) arm: the registry file is created when the path does not exist
Initialized(fs, wr) ==
    [val |-> <<>>, fs |-> wr.fs, msg |-> IF wr.ok THEN "initialized" ELSE "create_error"]

\* a read that never creates the registry file
ReadOutcome_no_init(fs, data) ==
    IF data.ok THEN [val |-> EntriesOf(data.val), fs |-> fs, msg |-> ParseMessage(data.val)]
    ELSE [val |-> <<>>, fs |-> fs, msg |-> "read_warning"]

\* the match on read_to_string's result: the list returned, the file system after,
\* and the line printed
ReadOutcome(fs, data) ==
    IF data.ok THEN [val |-> EntriesOf(data.val), fs |-> fs, msg |-> ParseMessage(data.val)]
    ELSE IF ~path_exists(fs, RegistryPath)
         THEN Initialized(fs, write_string(fs, RegistryPath, <<"[", "]">>))
         ELSE [val |-> <<>>, fs |-> fs, msg |-> "read_warning"]

\* a read that writes "[]" over a registry file it found no entries in
read_blockchain_entries_reset(fs) ==
    \* the outcome of the read, then the reset
    IF ReadOutcome(fs, read_to_string(fs, RegistryPath)).val = <<>>
    THEN Initialized(fs, write_string(fs, RegistryPath, <<"[", "]">>))
    ELSE ReadOutcome(fs, read_to_string(fs, RegistryPath))

read_blockchain_entries(fs) == ReadOutcome(fs, read_to_string(fs, RegistryPath))

write_blockchain_entries(fs, entries) ==
    write_string(fs, RegistryPath, to_string_pretty(entries))

SetFS(fs) ==
    /\ cwd' = fs.cwd
    /\ registry' = fs.registry
    /\ modules' = fs.modules

-----------------------------------------------------------------------------
(* The celestial memory after SimulatedCelestialMemory::new(), and its calls *)

NotCalled == Called("new", None, "Ok", None)

\* let mut input = String::new(): nothing has been read at the prompt
NoInput == Ok(<<>>)

InitMemory ==
    /\ emotion_clouds = EmptyMap
    /\ resonant_nodes = EmptyMap
    /\ n_store_ok = 0
    /\ n_remove_ok = 0
    /\ cwd = "root"
    /\ registry = Absent
    /\ modules = [name \in ModNames |-> Absent]
    /\ call = NotCalled
    /\ input = NoInput

NextMemory ==
    /\ UNCHANGED input
    /\ \/ \E cloud \in EmotionClouds : store_emotion_cloud(cloud)
       \/ \E id \in CloudIds : retrieve_emotion_cloud(id)
       \/ list_emotion_clouds
       \/ \E cloud \in EmotionClouds : update_emotion_cloud(cloud)
       \/ \E id \in CloudIds : remove_emotion_cloud(id)
       \/ \E node \in ResonantNodes : store_resonant_node(node)
       \/ \E id \in NodeIds : retrieve_resonant_node(id)
       \/ list_resonant_nodes
       \/ \E node \in ResonantNodes : update_resonant_node(node)
       \/ \E id \in NodeIds : remove_resonant_node(id)

SpecMemory == InitMemory /\ [][NextMemory]_vars

-----------------------------------------------------------------------------
(* main.rs: the command handlers that use the registry and the file system.  *)
(* args are the words after the command; call.res is the line printed.      *)

\* the entries register_mod writes back: the list read, and the new entry at its end
Dedup(entries, new_entry) ==
    SelectSeq(entries, LAMBDA e : e.module_name # new_entry.module_name) \o <<new_entry>>

\* the Ok(hash) arm of register_mod: read, push, write, print
Registered(args, hash, rd) ==
    /\ Len(rd.val) < MaxEntries
    /\ \E wr \in {write_blockchain_entries(rd.fs, Append(rd.val, BlockchainEntry(args[1], hash)))} :
          /\ SetFS(wr.fs)
          /\ call' = Called("register_mod", args,
                            IF wr.ok THEN "registered" ELSE "write_error", hash)
    /\ UNCHANGED memVars

\* a register_mod that replaces an entry of the same name instead of appending
register_mod_dedup(args) ==
    /\ Len(args) = 1
    /\ \E hash \in {calculate_sha256(FS, ModulePath(args[1]))}, rd \in {read_blockchain_entries(FS)} :
          /\ hash.ok
          /\ Len(rd.val) < MaxEntries
          /\ \E wr \in {write_blockchain_entries(rd.fs, Dedup(rd.val, BlockchainEntry(args[1], hash.val)))} :
                /\ SetFS(wr.fs)
                /\ call' = Called("register_mod", args,
                                  IF wr.ok THEN "registered" ELSE "write_error", hash.val)
          /\ UNCHANGED memVars

register_mod(args) ==
    IF Len(args) # 1
    THEN /\ call' = Called("register_mod", args, "usage", None)
         /\ UNCHANGED <<memVars, fsVars>>
    ELSE IF ~path_exists(FS, ModulePath(args[1]))
    THEN /\ call' = Called("register_mod", args, "module_not_found", None)
         /\ UNCHANGED <<memVars, fsVars>>
    ELSE \E hash \in {calculate_sha256(FS, ModulePath(args[1]))} :
            IF hash.ok
            THEN \E rd \in {read_blockchain_entries(FS)} : Registered(args, hash.val, rd)
            ELSE /\ call' = Called("register_mod", args, "hash_error", None)
                 /\ UNCHANGED <<memVars, fsVars>>

\* Iterator::find: the index of the first entry of that name, 0 when there is none
RECURSIVE FindFrom(_, _, _)
FindFrom(entries, module_name, i) ==
    IF i > Len(entries) THEN 0
    ELSE IF entries[i].module_name = module_name THEN i
    ELSE FindFrom(entries, module_name, i + 1)

Find(entries, module_name) == FindFrom(entries, module_name, 1)

\* a verification that accepts any registered module without comparing the hashes
Verify_no_compare(entries, found, current_hash) ==
    IF found = 0 THEN "not_registered" ELSE "verified"

\* the match on find's result and the comparison of the two hashes
Verify(entries, found, current_hash) ==
    IF found = 0 THEN "not_registered"
    ELSE IF entries[found].hash = current_hash THEN "verified"
    ELSE "integrity_failed"

run_mod(args) ==
    IF args = <<>>
    THEN /\ call' = Called("run_mod", args, "usage", None)
         /\ UNCHANGED <<memVars, fsVars>>
    ELSE IF ~path_exists(FS, ModulePath(args[1]))
    THEN /\ call' = Called("run_mod", args, "module_not_found", None)
         /\ UNCHANGED <<memVars, fsVars>>
    ELSE \E current_hash \in {calculate_sha256(FS, ModulePath(args[1]))} :
            IF current_hash.ok
            THEN \E rd \in {read_blockchain_entries(FS)} :
                    /\ SetFS(rd.fs)
                    /\ call' = Called("run_mod", args,
                                      Verify(rd.val, Find(rd.val, args[1]), current_hash.val),
                                      current_hash.val)
                    /\ UNCHANGED memVars
            ELSE /\ call' = Called("run_mod", args, "hash_error", None)
                 /\ UNCHANGED <<memVars, fsVars>>

\* the directories a cd can name: the two that exist and one that does not
DirWords == Dirs \cup {"missing"}

cd(args) ==
    IF Len(args) # 1
    THEN /\ call' = Called("cd", args, "usage", None)
         /\ UNCHANGED <<memVars, fsVars>>
    ELSE IF args[1] \notin Dirs
    THEN /\ call' = Called("cd", args, "no_such_directory", None)
         /\ UNCHANGED <<memVars, fsVars>>
    ELSE /\ cwd' = args[1]
         /\ call' = Called("cd", args, "", None)
         /\ UNCHANGED <<memVars, registry, modules>>

\* recursive: -r or --recursive is among the words; paths: the other words;
\* confirmed: the answer get_confirmation reads is y
rm(recursive, paths) ==
    IF paths = <<>>
    THEN /\ call' = Called("rm", paths, IF recursive THEN "missing_operand" ELSE "usage", None)
         /\ UNCHANGED <<memVars, fsVars>>
    ELSE LET path == paths[1]
             is_dir == NodeAt(FS, path).kind = "dir"
         IN  IF ~path_exists(FS, path)
             THEN /\ call' = Called("rm", paths, "no_such_file", None)
                  /\ UNCHANGED <<memVars, fsVars>>
             ELSE IF is_dir /\ ~recursive
             THEN /\ call' = Called("rm", paths, "is_a_directory", None)
                  /\ UNCHANGED <<memVars, fsVars>>
             ELSE IF is_dir
             THEN \E confirmed \in BOOLEAN :
                     IF confirmed
                     THEN /\ SetFS(remove_directory_recursive(FS, path).fs)
                          /\ call' = Called("rm", paths, "", None)
                          /\ UNCHANGED memVars
                     ELSE /\ call' = Called("rm", paths, "not_removing", None)
                          /\ UNCHANGED <<memVars, fsVars>>
             ELSE /\ SetFS(remove_file(FS, path).fs)
                  /\ call' = Called("rm", paths, "", None)
                  /\ UNCHANGED memVars

mkdir(paths) ==
    IF Len(paths) # 1
    THEN /\ call' = Called("mkdir", paths, "usage", None)
         /\ UNCHANGED <<memVars, fsVars>>
    ELSE IF path_exists(FS, paths[1]) /\ NodeAt(FS, paths[1]).kind = "file"
    THEN /\ call' = Called("mkdir", paths, "file_exists", None)
         /\ UNCHANGED <<memVars, fsVars>>
    ELSE \E made \in {create_directory(FS, paths[1])} :
            /\ SetFS(made.fs)
            /\ call' = Called("mkdir", paths, IF made.ok THEN "" ELSE "cannot_create", None)
            /\ UNCHANGED memVars

\* outside the shell: the content of a module file is written (created or changed)
module_file_written(name, content) ==
    /\ modules[name].kind # "dir"
    /\ modules[name] # File(content)
    /\ modules' = [modules EXCEPT ![name] = File(content)]
    /\ call' = Called("module_file_written", <<name>>, content, None)
    /\ UNCHANGED <<memVars, cwd, registry>>

\* the functions called on their own, as the tests of module_system.rs do
call_read_blockchain_entries ==
    \E rd \in {read_blockchain_entries(FS)} :
        /\ SetFS(rd.fs)
        /\ call' = Called("read_blockchain_entries", None, rd.msg, rd.val)
        /\ UNCHANGED memVars

call_write_blockchain_entries(entries) ==
    \E wr \in {write_blockchain_entries(FS, entries)} :
        /\ SetFS(wr.fs)
        /\ call' = Called("write_blockchain_entries", entries, IF wr.ok THEN "Ok" ELSE "Err", None)
        /\ UNCHANGED memVars

-----------------------------------------------------------------------------
(* The registry: what the file ai_os/blockchain.json may hold at start-up,  *)
(* and the commands                                                         *)

SeqsUpTo(S, n) == UNION {[1..k -> S] : k \in 0..n}

EntryValues == {BlockchainEntry(name, hash) : name \in ModNames, hash \in Hashes}

\* a registry written by hand: one line, the keys in the other order
CompactRegistry ==
    <<"[", "{">> \o JsonString(<<"hash">>) \o <<":">> \o JsonString(Sha256Hex("A")) \o <<",">>
    \o JsonString(<<"module_name">>) \o <<":">> \o JsonString(<<"a">>) \o <<"}", "]", NL>>

\* the same registry cut off after its entry
TruncatedRegistry == SubSeq(CompactRegistry, 1, Len(CompactRegistry) - 2)

InitialRegistries ==
    {Absent, File(<<>>), File(<<" ", NL>>), File(<<"[", "]">>), File(<<"{">>),
     File(CompactRegistry), File(TruncatedRegistry)}

ArgLists == {<<>>, <<<<"a">>, <<"x">>>>} \cup {<<name>> : name \in ModNames}

PathLists == {<<>>, <<RegistryPath>>} \cup {<<ModulePath(name)>> : name \in ModNames}

InitRegistry ==
    /\ emotion_clouds = EmptyMap
    /\ resonant_nodes = EmptyMap
    /\ n_store_ok = 0
    /\ n_remove_ok = 0
    /\ cwd = "root"
    /\ registry \in InitialRegistries
    /\ modules = [name \in ModNames |-> Absent]
    /\ call = NotCalled
    /\ input = NoInput

NextRegistry ==
    /\ UNCHANGED input
    /\ \/ \E args \in ArgLists : register_mod(args)
       \/ \E args \in ArgLists : run_mod(args)
       \/ \E args \in {<<>>} \cup {<<d>> : d \in DirWords} : cd(args)
       \/ \E recursive \in BOOLEAN, paths \in PathLists : rm(recursive, paths)
       \/ \E paths \in PathLists : mkdir(paths)
       \/ \E name \in ModNames, content \in Contents : module_file_written(name, content)

SpecRegistry == InitRegistry /\ [][NextRegistry]_vars

NextRegistryCalls ==
    /\ UNCHANGED input
    /\ \/ \E entries \in SeqsUpTo(EntryValues, MaxEntries) : call_write_blockchain_entries(entries)
       \/ call_read_blockchain_entries
       \/ \E args \in {<<>>} \cup {<<d>> : d \in DirWords} : cd(args)
       \/ \E recursive \in BOOLEAN : rm(recursive, <<RegistryPath>>)
       \/ mkdir(<<RegistryPath>>)

SpecRegistryCalls == InitRegistry /\ [][NextRegistryCalls]_vars

-----------------------------------------------------------------------------
(* hal/tensor.rs: tensors over a raw byte buffer, and CpuTensorOperations.   *)
(* An f32 element is the four bytes of a small natural number that stands   *)
(* in for the float (least significant byte first).                          *)

DataTypes == {"F32", "I32", "U8"}

\* DataType::size_of
size_of(data_type) == IF data_type = "U8" THEN 1 ELSE 4

\* the alignment the platform allocator gives every allocation it makes, and the
\* addresses of the dangling pointers of an empty Vec<u8> and an empty Vec<f32>
MallocAlign == 16
AlignOfU8 == 1
AlignOfF32 == 4

\* data_align: the alignment of data.as_ptr()
Tensor(dimensions, data_type, data, data_align) ==
    [dimensions |-> dimensions, data_type |-> data_type, data |-> data,
     data_align |-> data_align]

RECURSIVE Product(_)
Product(dimensions) ==
    IF dimensions = <<>> THEN 1 ELSE Head(dimensions) * Product(Tail(dimensions))

num_elements(tensor) == Product(tensor.dimensions)

\* vec![0; byte_size]: an empty vector allocates nothing
ZeroBytes(byte_size) == [i \in 1..byte_size |-> 0]

new_zeros(dimensions, data_type) ==
    Tensor(dimensions, data_type, ZeroBytes(Product(dimensions) * size_of(data_type)),
           IF Product(dimensions) * size_of(data_type) = 0 THEN AlignOfU8 ELSE MallocAlign)

\* the bytes of one f32, and the f32 at index i of a byte buffer
F32Bytes(x) == <<x % 256, (x \div 256) % 256, (x \div 65536) % 256, x \div 16777216>>

F32At(data, i) ==
    data[4 * i - 3] + 256 * data[4 * i - 2] + 65536 * data[4 * i - 1] + 16777216 * data[4 * i]

\* a Vec<f32> reinterpreted as a Vec<u8> (mem::forget and Vec::from_raw_parts)
F32VecBytes(values) == [k \in 1..(4 * Len(values)) |-> F32Bytes(values[((k - 1) \div 4) + 1])[((k - 1) % 4) + 1]]

F32VecAlign(values) == IF values = <<>> THEN AlignOfF32 ELSE MallocAlign

F32Slice(data) == [i \in 1..(Len(data) \div 4) |-> F32At(data, i)]

Panicked == [ok |-> FALSE, err |-> "panic"]

\* as_slice::<f32>: the size check, then slice::from_raw_parts.  On a pointer that is
\* not aligned for f32 the call is undefined behaviour: a build without the checks of
\* unsafe preconditions returns the slice, a build with them aborts.
as_slice_f32(tensor) ==
    IF Len(tensor.data) % 4 # 0 THEN {Err("Data size is not a multiple of the type size.")}
    ELSE IF tensor.data_align % AlignOfF32 # 0 THEN {Ok(F32Slice(tensor.data)), Panicked}
    ELSE {Ok(F32Slice(tensor.data))}

\* the element-wise loop and the tensor built from its result
Sum(tensor_a, slice_a, slice_b) ==
    Ok(Tensor(tensor_a.dimensions, tensor_a.data_type,
              F32VecBytes([i \in 1..Len(slice_a) |-> slice_a[i] + slice_b[i]]),
              F32VecAlign(slice_a)))

\* the F32 arm, after both slices have been taken (? returns the first error)
AddF32(tensor_a, slice_a, slice_b) ==
    IF ~slice_a.ok THEN slice_a
    ELSE IF ~slice_b.ok THEN slice_b
    ELSE IF Len(slice_a.val) # Len(slice_b.val)
    THEN Err("Internal data length mismatch despite same dimensions.")
    ELSE Sum(tensor_a, slice_a.val, slice_b.val)

\* an add that compares the data types before the dimensions
add_types_first(tensor_a, tensor_b) ==
    IF tensor_a.data_type # tensor_b.data_type
    THEN {Err("Tensor data types must match for addition.")}
    ELSE IF tensor_a.dimensions # tensor_b.dimensions
    THEN {Err("Tensor dimensions must match for addition.")}
    ELSE IF tensor_a.data_type = "F32"
    THEN {AddF32(tensor_a, slice_a, slice_b) :
             slice_a \in as_slice_f32(tensor_a), slice_b \in as_slice_f32(tensor_b)}
    ELSE {Err("Addition for this data type is not yet implemented.")}

\* an add that looks at the first tensor's type before it compares the two types
add_implemented_first(tensor_a, tensor_b) ==
    IF tensor_a.dimensions # tensor_b.dimensions
    THEN {Err("Tensor dimensions must match for addition.")}
    ELSE IF tensor_a.data_type # "F32"
    THEN {Err("Addition for this data type is not yet implemented.")}
    ELSE IF tensor_a.data_type # tensor_b.data_type
    THEN {Err("Tensor data types must match for addition.")}
    ELSE {AddF32(tensor_a, slice_a, slice_b) :
             slice_a \in as_slice_f32(tensor_a), slice_b \in as_slice_f32(tensor_b)}

\* an add that also adds I32 tensors
add_i32_too(tensor_a, tensor_b) ==
    IF tensor_a.dimensions # tensor_b.dimensions
    THEN {Err("Tensor dimensions must match for addition.")}
    ELSE IF tensor_a.data_type # tensor_b.data_type
    THEN {Err("Tensor data types must match for addition.")}
    ELSE IF tensor_a.data_type \in {"F32", "I32"}
    THEN {AddF32(tensor_a, slice_a, slice_b) :
             slice_a \in as_slice_f32(tensor_a), slice_b \in as_slice_f32(tensor_b)}
    ELSE {Err("Addition for this data type is not yet implemented.")}

\* CpuTensorOperations::add: the set of results the call can have
add(tensor_a, tensor_b) ==
    IF tensor_a.dimensions # tensor_b.dimensions
    THEN {Err("Tensor dimensions must match for addition.")}
    ELSE IF tensor_a.data_type # tensor_b.data_type
    THEN {Err("Tensor data types must match for addition.")}
    ELSE IF tensor_a.data_type = "F32"
    THEN {AddF32(tensor_a, slice_a, slice_b) :
             slice_a \in as_slice_f32(tensor_a), slice_b \in as_slice_f32(tensor_b)}
    ELSE {Err("Addition for this data type is not yet implemented.")}

\* the calls; call.arg keeps the two tensors as they are after the call (add takes
\* them by shared reference), call.res is "Ok" or the error, call.val the tensor
tensor_add(tensor_a, tensor_b) ==
    /\ \E result \in add(tensor_a, tensor_b) :
          call' = Called("add", <<tensor_a, tensor_b>>,
                         IF result.ok THEN "Ok" ELSE result.err,
                         IF result.ok THEN Some(result.val) ELSE None)
    /\ UNCHANGED <<memVars, fsVars>>

create_tensor_zeros(dimensions, data_type) ==
    /\ call' = Called("create_tensor_zeros", <<dimensions, data_type>>, "Ok",
                      Some(new_zeros(dimensions, data_type)))
    /\ UNCHANGED <<memVars, fsVars>>

\* the tensors handed to add: those of create_tensor_zeros, those built from a
\* Vec<f32> as the tests build them, and buffers one byte short
DimensionLists == {<<>>, <<0>>, <<1>>, <<2>>, <<1, 2>>, <<2, 1>>, <<2, 0>>}

F32Values == 0..MaxElem

FromF32Vec(dimensions, values) ==
    Tensor(dimensions, "F32", F32VecBytes(values), F32VecAlign(values))

CutShort(tensor) ==
    Tensor(tensor.dimensions, tensor.data_type,
           SubSeq(tensor.data, 1, Len(tensor.data) - 1), tensor.data_align)

Tensors ==
    {new_zeros(dimensions, data_type) : dimensions \in DimensionLists, data_type \in DataTypes}
    \cup UNION {{FromF32Vec(dimensions, values) : values \in [1..Product(dimensions) -> F32Values]}
                : dimensions \in DimensionLists}
    \cup {CutShort(new_zeros(<<2>>, data_type)) : data_type \in {"F32", "I32"}}

NextTensor ==
    /\ UNCHANGED input
    /\ \/ \E tensor_a \in Tensors, tensor_b \in Tensors : tensor_add(tensor_a, tensor_b)
       \/ \E dimensions \in DimensionLists, data_type \in DataTypes :
             create_tensor_zeros(dimensions, data_type)

SpecTensor == InitMemory /\ [][NextTensor]_vars

-----------------------------------------------------------------------------
(* hal/ai.rs: MyEmotionalReasoningEngine.  A text is a sequence of           *)
(* characters; an intensity is given in tenths (8 stands for 0.8).           *)

UpperCaseLetters == <<"A", "B", "C", "D", "E", "F", "G", "H", "I", "J", "K", "L", "M">>
    \o <<"N", "O", "P", "Q", "R", "S", "T", "U", "V", "W", "X", "Y", "Z">>

LowerCaseLetters == <<"a", "b", "c", "d", "e", "f", "g", "h", "i", "j", "k", "l", "m">>
    \o <<"n", "o", "p", "q", "r", "s", "t", "u", "v", "w", "x", "y", "z">>

\* char::to_lowercase on the characters of the texts: a capital letter becomes its
\* small letter, every other character stays
LowerChar(c) ==
    IF \E i \in DOMAIN UpperCaseLetters : UpperCaseLetters[i] = c
    THEN LowerCaseLetters[CHOOSE i \in DOMAIN UpperCaseLetters : UpperCaseLetters[i] = c]
    ELSE c

to_lowercase(text) == [i \in DOMAIN text |-> LowerChar(text[i])]

\* str::contains: the pattern is searched from the left
RECURSIVE ContainsFrom(_, _, _)
ContainsFrom(text, pattern, start) ==
    IF start + Len(pattern) - 1 > Len(text) THEN FALSE
    ELSE IF SubSeq(text, start, start + Len(pattern) - 1) = pattern THEN TRUE
    ELSE ContainsFrom(text, pattern, start + 1)

contains(text, pattern) == ContainsFrom(text, pattern, 1)

EmotionalOutput(primary_emotion, intensity) ==
    [primary_emotion |-> primary_emotion, intensity |-> intensity]

happy == <<"h", "a", "p", "p", "y">>
joy == <<"j", "o", "y">>
sad == <<"s", "a", "d">>
sorrow == <<"s", "o", "r", "r", "o", "w">>
angry == <<"a", "n", "g", "r", "y">>
anger == <<"a", "n", "g", "e", "r">>
fear == <<"f", "e", "a", "r">>

\* a chain that looks for sad and sorrow before happy and joy
Analyze_sorrow_first(lower_input) ==
    IF contains(lower_input, sad) \/ contains(lower_input, sorrow)
    THEN Ok(EmotionalOutput("sorrow", 7))
    ELSE IF contains(lower_input, happy) \/ contains(lower_input, joy)
    THEN Ok(EmotionalOutput("joy", 8))
    ELSE IF contains(lower_input, angry) \/ contains(lower_input, anger)
    THEN Ok(EmotionalOutput("anger", 9))
    ELSE IF contains(lower_input, fear)
    THEN Ok(EmotionalOutput("fear", 6))
    ELSE Ok(EmotionalOutput("neutral", 5))

\* the if / else if chain on the lowercased input
Analyze(lower_input) ==
    IF contains(lower_input, happy) \/ contains(lower_input, joy)
    THEN Ok(EmotionalOutput("joy", 8))
    ELSE IF contains(lower_input, sad) \/ contains(lower_input, sorrow)
    THEN Ok(EmotionalOutput("sorrow", 7))
    ELSE IF contains(lower_input, angry) \/ contains(lower_input, anger)
    THEN Ok(EmotionalOutput("anger", 9))
    ELSE IF contains(lower_input, fear)
    THEN Ok(EmotionalOutput("fear", 6))
    ELSE Ok(EmotionalOutput("neutral", 5))

analyze_emotional_context(text_input) == Analyze(to_lowercase(text_input))

call_analyze_emotional_context(text_input) ==
    /\ \E result \in {analyze_emotional_context(text_input)} :
          call' = Called("analyze_emotional_context", text_input,
                         IF result.ok THEN "Ok" ELSE "Err",
                         IF result.ok THEN Some(result.val) ELSE None)
    /\ UNCHANGED <<memVars, fsVars>>

\* the texts handed to the engine: up to MaxFragments pieces put one after the other
Fragments ==
    {happy, joy, sad, sorrow, angry, anger, fear,
     <<"H", "A", "P", "P", "Y">>, <<"S", "a", "D">>, <<" ">>}

Texts == {Concat(pieces) : pieces \in SeqsUpTo(Fragments, MaxFragments)}

NextEmotion ==
    /\ UNCHANGED input
    /\ \E text_input \in Texts : call_analyze_emotional_context(text_input)

SpecEmotion == InitMemory /\ [][NextEmotion]_vars

-----------------------------------------------------------------------------
(* hal/compute.rs: BasicComputeService.  Its device list is set by new() and *)
(* no method changes it.                                                     *)

CpuDevice(device_name, capabilities_info) ==
    [name |-> device_name, capabilities_info |-> capabilities_info]

\* impl ComputeDevice for CpuDevice
name(device) == device.name
device_type(device) == "CPU"
capabilities(device) == device.capabilities_info

\* CpuDevice::default()
CpuDevice_default == CpuDevice("Generic CPU", "Basic x86_64 support")

\* BasicComputeService::new(): self.devices
devices == <<CpuDevice("Host CPU", "General purpose computation")>>

\* a list of default devices, one for each stored device
list_devices_default == [i \in DOMAIN devices |-> CpuDevice_default]

\* every stored device is rebuilt from its name and its capabilities
list_devices == [i \in DOMAIN devices |-> CpuDevice(name(devices[i]), capabilities(devices[i]))]

call_list_devices ==
    /\ call' = Called("list_devices", None, "Ok", list_devices)
    /\ UNCHANGED <<memVars, fsVars>>

\* the compute service beside the celestial memory of the same Hal
NextCompute ==
    \/ call_list_devices /\ UNCHANGED input
    \/ NextMemory

SpecCompute == InitMemory /\ [][NextCompute]_vars

-----------------------------------------------------------------------------
(* main.rs: the command loop.  A line is a sequence of pieces of text: the   *)
(* white-space characters, and pieces that stand for a run of other          *)
(* characters ("exit", "Exit" and "x" are three pieces; <<"exit", "x">> is   *)
(* the word exitx).                                                          *)

\* str::trim: the white space at both ends is dropped
RECURSIVE TrimStart(_)
TrimStart(text) ==
    IF text # <<>> /\ Head(text) \in Whitespace THEN TrimStart(Tail(text)) ELSE text

RECURSIVE TrimEnd(_)
TrimEnd(text) ==
    IF text # <<>> /\ text[Len(text)] \in Whitespace
    THEN TrimEnd(SubSeq(text, 1, Len(text) - 1))
    ELSE text

trim(text) == TrimEnd(TrimStart(text))

\* str::split_whitespace: the runs of characters that are not white space
RECURSIVE SplitFrom(_, _, _)
SplitFrom(text, word, words) ==
    IF text = <<>> THEN (IF word = <<>> THEN words ELSE Append(words, word))
    ELSE IF Head(text) \in Whitespace
    THEN SplitFrom(Tail(text), <<>>, IF word = <<>> THEN words ELSE Append(words, word))
    ELSE SplitFrom(Tail(text), Append(word, Head(text)), words)

split_whitespace(text) == SplitFrom(text, <<>>, <<>>)

\* [&str]::join(" ")
RECURSIVE join(_)
join(words) ==
    IF words = <<>> THEN <<>>
    ELSE IF Len(words) = 1 THEN words[1]
    ELSE words[1] \o <<" ">> \o join(Tail(words))

\* the String of a word of one piece is the piece
to_string(word) == IF Len(word) = 1 THEN word[1] ELSE word

\* the words that name the paths of the model
RegistryWord == <<"ai_os/blockchain.json">>
ModuleWord == <<"ai_os/modules/a">>

\* Path::new(word)
PathOf(word) == IF word = RegistryWord THEN RegistryPath ELSE ModulePath(<<"a">>)

PathsOf(words) == [i \in DOMAIN words |-> PathOf(words[i])]

\* the commands without an effect on the services
exit(args) ==
    /\ call' = Called("exit", args, "Exiting AiOS...", None)
    /\ UNCHANGED <<memVars, fsVars>>

echo(args) ==
    /\ call' = Called("echo", args, join(args), None)
    /\ UNCHANGED <<memVars, fsVars>>

help(args) ==
    /\ call' = Called("help", args, "Available commands:", None)
    /\ UNCHANGED <<memVars, fsVars>>

clear(args) ==
    /\ call' = Called("clear", args, "<ESC>[2J<ESC>[H", None)
    /\ UNCHANGED <<memVars, fsVars>>

\* what cat prints for one file
CatFile(path) ==
    CASE ~path_exists(FS, path) -> "no_such_file"
      [] NodeAt(FS, path).kind # "file" -> "is_not_a_file"
      [] OTHER -> read_to_string(FS, path).val

cat(args) ==
    /\ call' = Called("cat", args,
                      IF args = <<>> THEN "usage"
                      ELSE [i \in DOMAIN args |-> CatFile(PathOf(args[i]))], None)
    /\ UNCHANGED <<memVars, fsVars>>

pwd(args) ==
    /\ call' = Called("pwd", args, IF args # <<>> THEN "usage" ELSE cwd, None)
    /\ UNCHANGED <<memVars, fsVars>>

\* what ls prints: the entries of the working directory, of a directory made by
\* mkdir (none), or the name of a file
ListOf(path) ==
    CASE ~path_exists(FS, path) -> "no_such_file"
      [] NodeAt(FS, path).kind = "file" -> "file_name"
      [] OTHER -> <<>>

ls(args) ==
    /\ call' = Called("ls", args,
                      IF args = <<>> THEN (IF cwd = "root" THEN <<"ai_os">> ELSE <<>>)
                      ELSE ListOf(PathOf(args[1])), None)
    /\ UNCHANGED <<memVars, fsVars>>

emotion_test(args) ==
    /\ IF args = <<>>
       THEN call' = Called("emotion_test", args, "usage", None)
       ELSE \E output \in {analyze_emotional_context(join(args))} :
               call' = Called("emotion_test", args,
                              IF output.ok THEN "Emotional Analysis" ELSE "Error analyzing emotion",
                              IF output.ok THEN Some(output.val) ELSE None)
    /\ UNCHANGED <<memVars, fsVars>>

\* str::parse::<f32> and str::parse::<u8> on the words of the model
F32Numerals == {<<"0">>, <<"1">>, <<"2">>, <<"3">>, <<"255">>, <<"256">>}
U8Numerals == {<<"0">>, <<"1">>, <<"2">>, <<"3">>, <<"255">>}

NumberOf(numeral) ==
    CASE numeral = <<"0">> -> 0
      [] numeral = <<"1">> -> 1
      [] numeral = <<"2">> -> 2
      [] numeral = <<"3">> -> 3
      [] numeral = <<"255">> -> 255
      [] OTHER -> 256

parse_f32(word) == IF word \in F32Numerals THEN Ok(NumberOf(word)) ELSE Err("invalid float literal")

parse_u8(word) == IF word \in U8Numerals THEN Ok(NumberOf(word)) ELSE Err("invalid digit or overflow")

\* the cloud celestial_add_cloud builds from its ten words
CloudOf(args) ==
    [id |-> to_string(args[1]),
     position |-> <<parse_f32(args[2]).val, parse_f32(args[3]).val, parse_f32(args[4]).val>>,
     color |-> <<parse_u8(args[5]).val, parse_u8(args[6]).val, parse_u8(args[7]).val,
                 parse_u8(args[8]).val>>,
     intensity |-> parse_f32(args[9]).val,
     shape_description |-> to_string(args[10])]

celestial_add_cloud(args) ==
    IF Len(args) # 10
    THEN /\ call' = Called("celestial_add_cloud", args, "usage", None)
         /\ UNCHANGED <<memVars, fsVars>>
    ELSE IF \/ \E i \in {2, 3, 4, 9} : ~parse_f32(args[i]).ok
            \/ \E i \in {5, 6, 7, 8} : ~parse_u8(args[i]).ok
    THEN /\ call' = Called("celestial_add_cloud", args, "invalid_number", None)
         /\ UNCHANGED <<memVars, fsVars>>
    ELSE store_emotion_cloud(CloudOf(args))

celestial_list_clouds(args) == list_emotion_clouds

unknown_command(command, args) ==
    /\ call' = Called("unknown", args, <<"Unknown command: ", command>>, None)
    /\ UNCHANGED <<memVars, fsVars>>

\* the words rm takes for flags, and the others
IsFlag(word) == word \in {<<"-r">>, <<"--recursive">>}

\* a dispatcher that looks at the first piece of the command word only
Dispatch_first_piece(command, args) ==
    CASE Head(command) = "exit" -> exit(args)
      [] Head(command) = "ls" -> ls(args)
      [] OTHER -> unknown_command(command, args)

\* match command { .. }
Dispatch(command, args) ==
    CASE command = <<"exit">> -> exit(args)
      [] command = <<"echo">> -> echo(args)
      [] command = <<"help">> -> help(args)
      [] command = <<"clear">> -> clear(args)
      [] command = <<"register_mod">> -> register_mod(args)
      [] command = <<"cat">> -> cat(args)
      [] command = <<"rm">> ->
            rm(\E i \in DOMAIN args : IsFlag(args[i]),
               PathsOf(SelectSeq(args, LAMBDA word : ~IsFlag(word))))
      [] command = <<"mkdir">> -> mkdir(PathsOf(args))
      [] command = <<"pwd">> -> pwd(args)
      [] command = <<"cd">> -> cd([i \in DOMAIN args |-> to_string(args[i])])
      [] command = <<"run_mod">> -> run_mod(args)
      [] command = <<"emotion_test">> -> emotion_test(args)
      [] command = <<"celestial_add_cloud">> -> celestial_add_cloud(args)
      [] command = <<"ls">> -> ls(args)
      [] command = <<"celestial_list_clouds">> -> celestial_list_clouds(args)
      [] OTHER -> unknown_command(command, args)

\* the loop is left by the break of exit
Exited == call.op = "exit"

\* a loop that is left at the end of the input
command_loop_eof(line) ==
    /\ ~Exited
    /\ input' = line
    /\ IF ~line.ok
       THEN /\ call' = Called("read_line", None, "Error reading input", None)
            /\ UNCHANGED <<memVars, fsVars>>
       ELSE IF line.val = <<>>
       THEN exit(<<>>)
       ELSE IF trim(line.val) = <<>>
       THEN /\ call' = Called("read_line", None, "", None)
            /\ UNCHANGED <<memVars, fsVars>>
       ELSE \E words \in {split_whitespace(trim(line.val))} : Dispatch(Head(words), Tail(words))

\* one turn of the loop: the prompt, read_line, trim, split_whitespace, the dispatcher
command_loop(line) ==
    /\ ~Exited
    /\ input' = line
    /\ IF ~line.ok
       THEN /\ call' = Called("read_line", None, "Error reading input", None)
            /\ UNCHANGED <<memVars, fsVars>>
       ELSE IF trim(line.val) = <<>>
       THEN /\ call' = Called("read_line", None, "", None)
            /\ UNCHANGED <<memVars, fsVars>>
       ELSE \E words \in {split_whitespace(trim(line.val))} : Dispatch(Head(words), Tail(words))

\* the lines typed at the prompt: the words of a command, laid out in two ways
CloudWords(color_word) ==
    <<<<"c1">>, <<"1">>, <<"2">>, <<"3">>, color_word, <<"0">>, <<"0">>, <<"255">>, <<"1">>,
      <<"sphere">>>>

CommandWords ==
    {<<<<"exit">>>>, <<<<"exit">>, <<"now">>>>,
     <<<<"echo">>>>, <<<<"echo">>, <<"a">>, <<"x">>>>,
     <<<<"help">>>>, <<<<"clear">>>>,
     <<<<"cat">>>>, <<<<"cat">>, RegistryWord>>, <<<<"cat">>, ModuleWord>>,
     <<<<"rm">>>>, <<<<"rm">>, <<"-r">>>>, <<<<"rm">>, RegistryWord>>,
     <<<<"rm">>, <<"-r">>, RegistryWord>>, <<<<"rm">>, ModuleWord>>,
     <<<<"rm">>, ModuleWord, <<"--recursive">>>>,
     <<<<"mkdir">>>>, <<<<"mkdir">>, RegistryWord>>, <<<<"mkdir">>, ModuleWord>>,
     <<<<"pwd">>>>, <<<<"pwd">>, <<"x">>>>,
     <<<<"cd">>>>, <<<<"cd">>, <<"ro">>>>, <<<<"cd">>, <<"root">>>>, <<<<"cd">>, <<"missing">>>>,
     <<<<"emotion_test">>>>, <<<<"emotion_test">>, happy>>,
     <<<<"emotion_test">>, <<"S", "a", "D">>, <<"x">>>>,
     <<<<"celestial_add_cloud">>>>, <<<<"celestial_add_cloud">>>> \o CloudWords(<<"255">>),
     <<<<"celestial_add_cloud">>>> \o CloudWords(<<"256">>),
     <<<<"ls">>>>, <<<<"ls">>, RegistryWord>>,
     <<<<"celestial_list_clouds">>>>,
     <<<<"Exit">>>>, <<<<"EXIT">>, <<"now">>>>, <<<<"exit", "x">>>>, <<<<"x", "exit">>>>,
     <<<<"foo">>, <<"exit">>>>, <<<<"rm", "x">>, <<"-r">>, RegistryWord>>,
     <<<<"Celestial_add_cloud">>>> \o CloudWords(<<"255">>)}
    \cup {<<<<"register_mod">>>> \o args : args \in ArgLists}
    \cup {<<<<"run_mod">>>> \o args : args \in ArgLists}

\* the words with one space between them and a newline at the end
RECURSIVE PlainLine(_)
PlainLine(words) ==
    IF words = <<>> THEN <<NL>>
    ELSE IF Len(words) = 1 THEN words[1] \o <<NL>>
    ELSE words[1] \o <<" ">> \o PlainLine(Tail(words))

\* the words with white space before, between and after them
RECURSIVE PaddedLine(_)
PaddedLine(words) ==
    IF words = <<>> THEN <<" ", NL>>
    ELSE <<" ">> \o words[1] \o <<"\t">> \o PaddedLine(Tail(words))

\* the end of the input (no byte read), empty and blank lines, a last line without
\* its newline, the lines of the commands, and a failed read
Lines ==
    {Ok(<<>>), Ok(<<NL>>), Ok(<<" ", "\t", NL>>), Ok(<<"exit">>), Ok(<<"pwd">>),
     Err("stream did not contain valid UTF-8")}
    \cup {Ok(PlainLine(words)) : words \in CommandWords}
    \cup {Ok(PaddedLine(words)) : words \in CommandWords}

\* the module files found at start-up
InitShell ==
    /\ emotion_clouds = EmptyMap
    /\ resonant_nodes = EmptyMap
    /\ n_store_ok = 0
    /\ n_remove_ok = 0
    /\ cwd = "root"
    /\ registry = Absent
    /\ modules \in [ModNames -> {Absent, File("A")}]
    /\ call = NotCalled
    /\ input = NoInput

NextShell == \E line \in Lines : command_loop(line)

SpecShell == InitShell /\ [][NextShell]_vars

-----------------------------------------------------------------------------
(* Claims about the celestial memory, checked under SpecMemory *)

\* what retrieve_emotion_cloud(id) / retrieve_resonant_node(id) return in the current state
RetrievedCloud(id) == MapGet(emotion_clouds, id)
RetrievedNode(id) == MapGet(resonant_nodes, id)

\* C1: store_emotion_cloud of an id that is already stored returns Err and leaves the
\* store as it was: retrieve of that id still gives the old cloud, the listed content
\* is the same, nothing is overwritten.
C1_StoreRefusesDuplicate ==
    [][(call'.op = "store_emotion_cloud" /\ ContainsKey(emotion_clouds, call'.arg.id))
        => /\ call'.res = "Err"
           /\ MapGet(emotion_clouds', call'.arg.id) = RetrievedCloud(call'.arg.id)
           /\ emotion_clouds' = emotion_clouds
           /\ n_store_ok' = n_store_ok]_vars

C1_Witness ==
    /\ call.op = "store_emotion_cloud"
    /\ call.res = "Err"
    /\ ContainsKey(emotion_clouds, call.arg.id)
    /\ emotion_clouds[call.arg.id] # call.arg

\* C2: store of a cloud whose id is not stored returns Ok, and a retrieve of that id
\* right after returns Some cloud equal to it in every field; retrieve of an id that is
\* not stored returns None; retrieve never changes the store.
C2_StoreRetrieveRoundTrip ==
    [][/\ (call'.op = "store_emotion_cloud" /\ ~ContainsKey(emotion_clouds, call'.arg.id))
          => /\ call'.res = "Ok"
             /\ MapGet(emotion_clouds', call'.arg.id) = Some(call'.arg)
       /\ (call.op = "store_emotion_cloud" /\ call.res = "Ok"
           /\ call'.op = "retrieve_emotion_cloud" /\ call'.arg = call.arg.id)
          => /\ call'.val = Some(call.arg)
             /\ \A f \in {"id", "position", "color", "intensity", "shape_description"} :
                    call'.val[1][f] = call.arg[f]
       /\ call'.op = "retrieve_emotion_cloud"
          => /\ ~ContainsKey(emotion_clouds, call'.arg) => call'.val = None
             /\ ContainsKey(emotion_clouds, call'.arg) => call'.val = Some(emotion_clouds[call'.arg])
             /\ UNCHANGED memVars]_vars

C2_Witness ==
    /\ call.op = "retrieve_emotion_cloud"
    /\ call.val # None
    /\ call.val[1].id = call.arg
    /\ n_store_ok > 0

\* C3: update_emotion_cloud of a stored id returns Ok, after it retrieve of the id gives
\* exactly the new cloud, the number of clouds and every other cloud are unchanged; of an
\* id that is not stored it returns Err and creates nothing.
C3_UpdateIfPresent ==
    [][call'.op = "update_emotion_cloud"
        => IF ContainsKey(emotion_clouds, call'.arg.id)
           THEN /\ call'.res = "Ok"
                /\ MapGet(emotion_clouds', call'.arg.id) = Some(call'.arg)
                /\ DOMAIN emotion_clouds' = DOMAIN emotion_clouds
                /\ \A k \in DOMAIN emotion_clouds \ {call'.arg.id} :
                       emotion_clouds'[k] = emotion_clouds[k]
           ELSE /\ call'.res = "Err"
                /\ MapGet(emotion_clouds', call'.arg.id) = None
                /\ emotion_clouds' = emotion_clouds]_vars

C3_Witness ==
    /\ call.op = "update_emotion_cloud"
    /\ call.res = "Ok"
    /\ Cardinality(DOMAIN emotion_clouds) = 2
    /\ emotion_clouds[call.arg.id] = call.arg

\* C4: remove_emotion_cloud of a stored id returns Ok, after it retrieve of the id gives
\* None, there is exactly one cloud fewer and every other cloud is unchanged; of an id
\* that is not stored it returns Err and changes nothing.  After a remove of an id the
\* id stays absent until a store of it, so a second remove with no store between fails.
C4_RemoveIfPresent ==
    [][/\ call'.op = "remove_emotion_cloud"
          => /\ MapGet(emotion_clouds', call'.arg) = None
             /\ IF ContainsKey(emotion_clouds, call'.arg)
                THEN /\ call'.res = "Ok"
                     /\ Cardinality(DOMAIN emotion_clouds') = Cardinality(DOMAIN emotion_clouds) - 1
                     /\ \A k \in DOMAIN emotion_clouds \ {call'.arg} :
                            MapGet(emotion_clouds', k) = RetrievedCloud(k)
                ELSE /\ call'.res = "Err"
                     /\ emotion_clouds' = emotion_clouds
       /\ \A id \in CloudIds :
             (/\ ~ContainsKey(emotion_clouds, id)
              /\ ~(call'.op = "store_emotion_cloud" /\ call'.arg.id = id /\ call'.res = "Ok"))
             => ~ContainsKey(emotion_clouds', id)]_vars

C4_Witness ==
    /\ call.op = "remove_emotion_cloud"
    /\ call.res = "Err"
    /\ n_remove_ok > 0
    /\ emotion_clouds # EmptyMap

\* C5: what list_emotion_clouds returns holds exactly one cloud for each id that retrieve
\* finds and nothing else: no id twice, each listed cloud is the one retrieve returns, and
\* the length is (successful stores) - (successful removes).
C5_ListMatchesStore ==
    call.op = "list_emotion_clouds"
    => /\ \A id \in CloudIds :
             (RetrievedCloud(id) # None) <=> (\E i \in DOMAIN call.val : call.val[i].id = id)
       /\ \A i, j \in DOMAIN call.val : i # j => call.val[i].id # call.val[j].id
       /\ \A i \in DOMAIN call.val : RetrievedCloud(call.val[i].id) = Some(call.val[i])
       /\ Len(call.val) = n_store_ok - n_remove_ok

C5_Witness ==
    /\ call.op = "list_emotion_clouds"
    /\ Len(call.val) = 2
    /\ n_remove_ok > 0

\* C6: the node map changes only in a call that returns Ok; store_resonant_node returns Ok
\* iff the id is absent, and then retrieve gives the node stored; update_resonant_node and
\* remove_resonant_node return Ok iff the id is present; a call that returns Err leaves
\* the node map unchanged.
C6_NodeStoreSemantics ==
    [][/\ call'.op = "store_resonant_node"
          => /\ (call'.res = "Ok") <=> ~ContainsKey(resonant_nodes, call'.arg.id)
             /\ call'.res = "Ok" => MapGet(resonant_nodes', call'.arg.id) = Some(call'.arg)
       /\ call'.op = "update_resonant_node"
          => /\ (call'.res = "Ok") <=> ContainsKey(resonant_nodes, call'.arg.id)
             /\ call'.res = "Ok" => MapGet(resonant_nodes', call'.arg.id) = Some(call'.arg)
       /\ call'.op = "remove_resonant_node"
          => /\ (call'.res = "Ok") <=> ContainsKey(resonant_nodes, call'.arg)
             /\ call'.res = "Ok" => MapGet(resonant_nodes', call'.arg) = None
       /\ call'.res \in {"Ok", "Err"}
       /\ resonant_nodes' # resonant_nodes
          => /\ call'.op \in {"store_resonant_node", "update_resonant_node", "remove_resonant_node"}
             /\ call'.res = "Ok"]_vars

C6_Witness ==
    /\ call.op = "store_resonant_node"
    /\ call.res = "Err"
    /\ ContainsKey(resonant_nodes, call.arg.id)
    /\ resonant_nodes[call.arg.id] # call.arg

-----------------------------------------------------------------------------
(* Claims about the module registry, checked under SpecRegistry (C7 - C9)  *)
(* and SpecRegistryCalls (C10)                                             *)

\* what read_blockchain_entries returns in the current state, and in the next one
ReadValue == read_blockchain_entries(FS).val

FSNext == [cwd |-> cwd', registry |-> registry', modules |-> modules']

ReadValueNext == read_blockchain_entries(FSNext).val

NamedIndices(entries, module_name) ==
    {i \in DOMAIN entries : entries[i].module_name = module_name}

\* C7: a run_mod m that directly follows a successful register_mod m (same working
\* directory, module file untouched) prints "Module m verified", whatever was
\* registered under m before.
C7_RegisteredThenVerified ==
    [][(/\ call.op = "register_mod" /\ call.res = "registered"
        /\ call'.op = "run_mod" /\ call'.arg # <<>> /\ call'.arg[1] = call.arg[1])
       => call'.res = "verified"]_vars

\* C8 (amended): run_mod m prints "verified" only if the module file exists, an entry
\* is named m and the hash of the first such entry, the one compared, is the hash of
\* the file's content; when the file exists and is readable, it prints the
\* integrity-check-failed message if the only entry named m holds another hash, and
\* "not registered" if no entry is named m.
C8_VerifiedOnlyIfMatches ==
    (call.op = "run_mod" /\ call.arg # <<>>)
    => \A node \in {NodeAt(FS, ModulePath(call.arg[1]))} :
       \A named \in {NamedIndices(ReadValue, call.arg[1])} :
          /\ call.res = "verified"
             => /\ node.kind = "file"
                /\ named # {}
                /\ \E i \in named : /\ \A j \in named : i <= j
                                    /\ ReadValue[i].hash = Sha256Hex(node.content)
          /\ (/\ node.kind = "file"
              /\ Cardinality(named) = 1
              /\ \A i \in named : ReadValue[i].hash # Sha256Hex(node.content))
             => call.res = "integrity_failed"
          /\ (node.kind = "file" /\ named = {}) => call.res = "not_registered"

C8_Witness ==
    /\ call.op = "run_mod"
    /\ call.res = "integrity_failed"
    /\ Cardinality(NamedIndices(ReadValue, call.arg[1])) = 1

\* C8 as claimed: as above, but "not registered" is printed whenever no entry is named m.
C8_AsClaimed ==
    (call.op = "run_mod" /\ call.arg # <<>>)
    => \A node \in {NodeAt(FS, ModulePath(call.arg[1]))} :
       \A named \in {NamedIndices(ReadValue, call.arg[1])} :
          /\ call.res = "verified"
             => /\ node.kind = "file"
                /\ named # {}
                /\ \E i \in named : ReadValue[i].hash = Sha256Hex(node.content)
          /\ (/\ node.kind = "file"
              /\ Cardinality(named) = 1
              /\ \A i \in named : ReadValue[i].hash # Sha256Hex(node.content))
             => call.res = "integrity_failed"
          /\ named = {} => call.res = "not_registered"

\* C9: a successful register_mod m leaves in the registry file the list that was read
\* from it with one entry {m, hash of the module file} added at its end: every entry
\* read before keeps its place, nothing is deduplicated.
C9_RegisterAppends ==
    [][(call'.op = "register_mod" /\ call'.res = "registered")
       => \A before \in {ReadValue}, after \in {ReadValueNext} :
          /\ after = Append(before, BlockchainEntry(call'.arg[1],
                                      Sha256Hex(modules[call'.arg[1]].content)))
          /\ Len(after) = Len(before) + 1
          /\ \A i \in DOMAIN before : after[i] = before[i]
          /\ Cardinality(NamedIndices(after, call'.arg[1]))
             = Cardinality(NamedIndices(before, call'.arg[1])) + 1]_vars

C9_Witness ==
    /\ call.op = "register_mod"
    /\ call.res = "registered"
    /\ Cardinality(NamedIndices(ReadValue, call.arg[1])) = 2

-----------------------------------------------------------------------------
(* Claims about read_blockchain_entries on its own, checked under            *)
(* SpecRegistryCalls (C11, C12)                                              *)

EmptyListText == <<"[", "]">>

-----------------------------------------------------------------------------
(* Claims about CpuTensorOperations::add, checked under SpecTensor (C15-C18) *)

DimensionsError == "Tensor dimensions must match for addition."
DataTypesError == "Tensor data types must match for addition."
NotImplementedError == "Addition for this data type is not yet implemented."

\* C15: add returns Err("Tensor dimensions must match for addition.") whenever the two
\* dimension lists differ, in length or in an entry, whatever the data types and the
\* buffers are: the dimension check comes before every other check.
C15_DimensionCheckFirst ==
    (call.op = "add" /\ call.arg[1].dimensions # call.arg[2].dimensions)
    => /\ call.res = DimensionsError
       /\ call.val = None

C15_Witness ==
    /\ call.op = "add"
    /\ call.res = DimensionsError
    /\ Len(call.arg[1].dimensions) = Len(call.arg[2].dimensions)
    /\ call.arg[1].dimensions # call.arg[2].dimensions
    /\ call.arg[1].data_type # call.arg[2].data_type
    /\ Len(call.arg[1].data) % 4 # 0

\* C16: for equal dimensions and different data types add returns
\* Err("Tensor data types must match for addition."), also when one or both types
\* are I32 or U8: the type-equality check comes before the not-implemented check.
C16_TypeCheckBeforeNotImplemented ==
    (/\ call.op = "add"
     /\ call.arg[1].dimensions = call.arg[2].dimensions
     /\ call.arg[1].data_type # call.arg[2].data_type)
    => /\ call.res = DataTypesError
       /\ call.val = None

C16_Witness ==
    /\ call.op = "add"
    /\ call.res = DataTypesError
    /\ call.arg[1].dimensions = call.arg[2].dimensions
    /\ call.arg[1].data_type = "I32"
    /\ call.arg[2].data_type = "U8"

\* C17: for equal dimensions and equal data type add returns Ok only if the type is
\* F32; for I32 and for U8 it returns
\* Err("Addition for this data type is not yet implemented.") and no tensor.
C17_OnlyF32Implemented ==
    (/\ call.op = "add"
     /\ call.arg[1].dimensions = call.arg[2].dimensions
     /\ call.arg[1].data_type = call.arg[2].data_type)
    => /\ call.res = "Ok" => call.arg[1].data_type = "F32"
       /\ call.arg[1].data_type \in {"I32", "U8"}
          => call.res = NotImplementedError /\ call.val = None

C17_Witness ==
    /\ call.op = "add"
    /\ call.res = NotImplementedError
    /\ call.arg[1].dimensions = call.arg[2].dimensions
    /\ call.arg[1].data_type = "I32"
    /\ call.arg[2].data_type = "I32"
    /\ num_elements(call.arg[1]) = 2

\* a tensor whose buffer holds exactly the f32 elements its dimensions announce
WellFormedF32(tensor) ==
    /\ tensor.data_type = "F32"
    /\ Len(tensor.data) = 4 * num_elements(tensor)

\* C18: for two well-formed F32 tensors a and b with equal dimensions, add returns
\* Ok(r) where r has the dimensions of the inputs, the type F32, the same number of
\* elements, and r[i] = a[i] + b[i] at every index i.
C18_AddF32Elementwise ==
    (/\ call.op = "add"
     /\ WellFormedF32(call.arg[1])
     /\ WellFormedF32(call.arg[2])
     /\ call.arg[1].dimensions = call.arg[2].dimensions)
    => /\ call.res = "Ok"
       /\ call.val # None
       /\ \A r \in {call.val[1]} :
             /\ r.dimensions = call.arg[1].dimensions
             /\ r.data_type = "F32"
             /\ Len(r.data) = 4 * num_elements(call.arg[1])
             /\ \A i \in 1..num_elements(call.arg[1]) :
                   F32At(r.data, i) = F32At(call.arg[1].data, i) + F32At(call.arg[2].data, i)

-----------------------------------------------------------------------------
(* Claims about analyze_emotional_context, checked under SpecEmotion (C19)   *)

\* c and d are the same letter, whatever their case
SameLetter(c, d) ==
    \/ c = d
    \/ \E i \in DOMAIN UpperCaseLetters : {c, d} = {UpperCaseLetters[i], LowerCaseLetters[i]}

SameUpToCase(text, other) ==
    /\ Len(text) = Len(other)
    /\ \A i \in DOMAIN text : SameLetter(text[i], other[i])

\* the keyword occurs in the text, in any mix of cases
Has(text, keyword) ==
    \E i \in 1..Len(text) :
        /\ i + Len(keyword) - 1 <= Len(text)
        /\ SameUpToCase(SubSeq(text, i, i + Len(keyword) - 1), keyword)

ExpectedOutput(text) ==
    CASE Has(text, happy) \/ Has(text, joy) -> EmotionalOutput("joy", 8)
      [] OTHER ->
    CASE Has(text, sad) \/ Has(text, sorrow) -> EmotionalOutput("sorrow", 7)
      [] OTHER ->
    CASE Has(text, angry) \/ Has(text, anger) -> EmotionalOutput("anger", 9)
      [] OTHER ->
    CASE Has(text, fear) -> EmotionalOutput("fear", 6)
      [] OTHER -> EmotionalOutput("neutral", 5)

-----------------------------------------------------------------------------
(* Claims about BasicComputeService::list_devices, checked under SpecCompute *)
(* (C20)                                                                     *)

\* C20: on every call, in any state, list_devices returns exactly one device, with
\* name "Host CPU", device_type CPU and capabilities "General purpose computation";
\* a call changes nothing, so every later call returns the same list.
C20_OneHostCpu ==
    [][call'.op = "list_devices"
       => /\ Len(call'.val) = 1
          /\ name(call'.val[1]) = "Host CPU"
          /\ device_type(call'.val[1]) = "CPU"
          /\ capabilities(call'.val[1]) = "General purpose computation"
          /\ call.op = "list_devices" => call'.val = call.val
          /\ UNCHANGED <<memVars, fsVars>>]_vars

C20_Witness ==
    /\ call.op = "list_devices"
    /\ Len(call.val) = 1
    /\ name(call.val[1]) = "Host CPU"
    /\ emotion_clouds # EmptyMap
    /\ n_remove_ok > 0

-----------------------------------------------------------------------------
(* Claims about the command loop, checked under SpecShell (C13, C14)         *)

HasWord(text) == \E i \in DOMAIN text : text[i] \notin Whitespace

\* the first run of characters of the text that are not white space
FirstWord(text) ==
    LET i == CHOOSE i \in DOMAIN text :
                 /\ text[i] \notin Whitespace
                 /\ \A k \in 1..(i - 1) : text[k] \in Whitespace
        j == CHOOSE j \in i..Len(text) :
                 /\ \A k \in i..j : text[k] \notin Whitespace
                 /\ j = Len(text) \/ text[j + 1] \in Whitespace
    IN  SubSeq(text, i, j)

\* C13: the loop ends if and only if a line whose first word is exactly exit is read
\* at the prompt (further words are ignored, "Exiting AiOS..." is the last line
\* printed, and no turn of the loop follows).  Every other input - the end of the
\* input, an empty or blank line, a failed read, an unknown command, a usage error, a
\* command whose service call fails - leaves the loop running.
C13_LoopEndsOnlyOnExit ==
    [][/\ ~Exited
       /\ Exited' <=> (input'.ok /\ HasWord(input'.val) /\ FirstWord(input'.val) = <<"exit">>)
       /\ Exited' => (call'.res = "Exiting AiOS..." /\ UNCHANGED <<memVars, fsVars>>)
       /\ (~input'.ok \/ ~HasWord(input'.val))
          => (call'.op = "read_line" /\ UNCHANGED <<memVars, fsVars>>)]_vars

C13_Witness ==
    /\ Exited
    /\ input = Ok(PaddedLine(<<<<"exit">>, <<"now">>>>))
    /\ call.arg = <<<<"now">>>>
    /\ registry.kind = "file"

\* the commands of the dispatcher
CommandNames ==
    {"exit", "echo", "help", "clear", "register_mod", "cat", "rm", "mkdir", "pwd", "cd",
     "run_mod", "emotion_test", "celestial_add_cloud", "ls", "celestial_list_clouds"}

\* the calls a command ends with: the two celestial commands end with a call of the
\* celestial memory
OpsOf(command_name) ==
    CASE command_name = "celestial_add_cloud" -> {"celestial_add_cloud", "store_emotion_cloud"}
      [] command_name = "celestial_list_clouds" -> {"list_emotion_clouds"}
      [] OTHER -> {command_name}

\* C14: the command is the first word of the trimmed line, matched exactly and with
\* its case against the fixed set of fifteen commands; for any other first word w the
\* only effect is the line "Unknown command: w": the celestial memory, the registry
\* file, the file system and the working directory are unchanged.
C14_ExactDispatch ==
    [][(input'.ok /\ HasWord(input'.val))
       => \A w \in {FirstWord(input'.val)} :
             IF Len(w) = 1 /\ w[1] \in CommandNames
             THEN call'.op \in OpsOf(w[1])
             ELSE /\ call'.op = "unknown"
                  /\ call'.res = <<"Unknown command: ", w>>
                  /\ UNCHANGED <<memVars, fsVars>>]_vars

C14_Witness ==
    /\ call.op = "unknown"
    /\ call.res = <<"Unknown command: ", <<"rm", "x">>>>
    /\ call.arg = <<<<"-r">>, RegistryWord>>
    /\ registry.kind = "file"
    /\ emotion_clouds # EmptyMap

-----------------------------------------------------------------------------
(* Claims about the two stores of the celestial memory together, checked     *)
(* under SpecMemory (C21)                                                    *)

CloudOps ==
    {"store_emotion_cloud", "retrieve_emotion_cloud", "list_emotion_clouds",
     "update_emotion_cloud", "remove_emotion_cloud"}

NodeOps ==
    {"store_resonant_node", "retrieve_resonant_node", "list_resonant_nodes",
     "update_resonant_node", "remove_resonant_node"}

\* the node lists the cloud id among its related_emotion_cloud_ids
Lists(node, cloud_id) ==
    \E i \in DOMAIN node.related_emotion_cloud_ids : node.related_emotion_cloud_ids[i] = cloud_id

\* C21: the two stores are independent and no referential integrity is kept: every
\* emotion-cloud operation leaves the resonant-node map unchanged and every node
\* operation leaves the cloud map unchanged; store_resonant_node and
\* update_resonant_node succeed or fail by the node id alone, whether or not the ids in
\* related_emotion_cloud_ids are stored clouds; and removing a cloud leaves the nodes
\* that list its id unchanged, still listing it.
C21_StoresIndependent ==
    [][/\ call'.op \in CloudOps => UNCHANGED resonant_nodes
       /\ call'.op \in NodeOps => UNCHANGED emotion_clouds
       /\ call'.op = "store_resonant_node"
          => /\ (call'.res = "Ok") <=> ~ContainsKey(resonant_nodes, call'.arg.id)
             /\ call'.res = "Ok" => MapGet(resonant_nodes', call'.arg.id) = Some(call'.arg)
       /\ call'.op = "update_resonant_node"
          => /\ (call'.res = "Ok") <=> ContainsKey(resonant_nodes, call'.arg.id)
             /\ call'.res = "Ok" => MapGet(resonant_nodes', call'.arg.id) = Some(call'.arg)
       /\ (call'.op = "remove_emotion_cloud" /\ call'.res = "Ok")
          => \A n \in DOMAIN resonant_nodes :
                Lists(resonant_nodes[n], call'.arg)
                => /\ ContainsKey(resonant_nodes', n)
                   /\ resonant_nodes'[n] = resonant_nodes[n]
                   /\ Lists(resonant_nodes'[n], call'.arg)]_vars

\* a cloud has been removed while a node, stored when the cloud was not there and
\* updated since, still lists its id
C21_Witness ==
    /\ call.op = "remove_emotion_cloud"
    /\ call.res = "Ok"
    /\ ~ContainsKey(emotion_clouds, call.arg)
    /\ \E n \in DOMAIN resonant_nodes : Lists(resonant_nodes[n], call.arg)
    /\ \E n \in DOMAIN resonant_nodes : resonant_nodes[n].related_emotion_cloud_ids = <<>>

=============================================================================
